---------------------------- MODULE Spec2Model ----------------------------
(***************************************************************************)
(* A model of the trip planner's pipeline: the catalog filter (city.py),   *)
(* the relevance scorer (relevance.py), the plan builder (planner.py) and  *)
(* the orchestrating front end (app.py).                                   *)
(*                                                                         *)
(* Representation.  A text value whose characters the code inspects (a     *)
(* city, an event name) is a tuple of one-character strings.  An ISO date  *)
(* string "2026-MM-DD" is the tuple <<MM, DD>> of its fields, compared     *)
(* field by field as the string is compared character by character; a     *)
(* parsed date is its day of the year.  A float with four decimals is the  *)
(* integer number of its ten-thousandths.                                  *)
(***************************************************************************)
EXTENDS Integers, Sequences, FiniteSets, TLC

VARIABLES
    pc,              \* the scripts that have run in the modelled scenario
    catalog_csv,     \* the event catalog: [columns, rows]
    cities_arg,      \* the requested cities, a list of strings
    start_arg,       \* --start, an ISO date string
    end_arg,         \* --end, an ISO date string
    input_json,      \* input.json: category -> weight (ten-thousandths)
    filtered_csv,    \* filtered.csv: [columns, rows]
    final_csv,       \* final.csv: [columns, rows], None before it is written
    plan_json,       \* plan.json, None before it is written
    widgets,         \* app.py: the values of the input widgets
    app_pc,          \* app.py: where the script run of the front end stands
    stage,           \* app.py: the index of the stage at hand
    started,         \* the stages started in this run, in order
    exited,          \* the return codes of the stages that have exited
    displayed,       \* whether this run has read and shown itinerary.json
    API_KEYS,        \* gemini_itinerary.py: the configured keys, in order
    key_index,       \* the position in API_KEYS of the loop of generate_itinerary
    last_error,      \* the exception of the latest failed attempt
    tried,           \* the attempts made so far: <<position, outcome>>, in order
    itinerary        \* what generate_itinerary returned, None before it returns

itinVars == <<API_KEYS, key_index, last_error, tried, itinerary>>

scriptVars == <<pc, catalog_csv, cities_arg, start_arg, end_arg,
                input_json, filtered_csv, final_csv, plan_json, itinVars>>

appVars == <<widgets, app_pc, stage, started, exited, displayed>>

vars == <<scriptVars, appVars>>

None == "None"

\* ------------------------------------------------------------------------
\* Bounds of the model
\* ------------------------------------------------------------------------

\* categories that events and interest vectors of the model may switch on
NumCats == 3
\* rows of a table (catalog, filtered.csv, final.csv)
MaxRows == 2
\* consecutive days, from 2026-01-31 on, that a date of the model may be
NumDays == 3
\* requested cities in one call of the filter
MaxCities == 2
\* configured API keys
MaxKeys == 2

\* ------------------------------------------------------------------------
\* Generic helpers
\* ------------------------------------------------------------------------

Range(s) == {s[i] : i \in 1..Len(s)}

\* f itself, as an enumerated function (sequence), so that it is computed once
Fcn(f) == f @@ <<>>
List(s) == s \o <<>>

SeqsUpTo(S, n) == UNION {[1..k -> S] : k \in 0..n}

Perms(n) == {p \in [1..n -> 1..n] : \A i, j \in 1..n : i # j => p[i] # p[j]}

Min2(a, b) == IF a <= b THEN a ELSE b
Max2(a, b) == IF a >= b THEN a ELSE b

RECURSIVE SumSeq(_)
SumSeq(s) == IF s = <<>> THEN 0 ELSE Head(s) + SumSeq(Tail(s))

\* ------------------------------------------------------------------------
\* Text: str.strip, str.lower, string comparison
\* ------------------------------------------------------------------------

UPPERCASE == <<"A", "B", "C", "D", "E", "F", "G", "H", "I", "J", "K", "L", "M",
               "N", "O", "P", "Q", "R", "S", "T", "U", "V", "W", "X", "Y", "Z">>
LOWERCASE == <<"a", "b", "c", "d", "e", "f", "g", "h", "i", "j", "k", "l", "m",
               "n", "o", "p", "q", "r", "s", "t", "u", "v", "w", "x", "y", "z">>
WHITESPACE == {" "}

\* the characters in code-point order
CODEPOINTS == <<" ">> \o UPPERCASE \o LOWERCASE

Ord == [c \in Range(CODEPOINTS) |->
           CHOOSE i \in 1..Len(CODEPOINTS) : CODEPOINTS[i] = c]

LowerChar == [c \in Range(CODEPOINTS) |->
    IF \E i \in 1..Len(UPPERCASE) : UPPERCASE[i] = c
    THEN LOWERCASE[CHOOSE i \in 1..Len(UPPERCASE) : UPPERCASE[i] = c]
    ELSE c]

lower(s) == List([i \in 1..Len(s) |-> LowerChar[s[i]]])

RECURSIVE lstrip(_)
lstrip(s) == IF s # <<>> /\ Head(s) \in WHITESPACE THEN lstrip(Tail(s)) ELSE s

RECURSIVE rstrip(_)
rstrip(s) ==
    IF s # <<>> /\ s[Len(s)] \in WHITESPACE
    THEN rstrip(SubSeq(s, 1, Len(s) - 1))
    ELSE s

strip(s) == rstrip(lstrip(s))

\* a < b for strings, character by character
RECURSIVE StrLess(_, _)
StrLess(a, b) ==
    IF b = <<>> THEN FALSE
    ELSE IF a = <<>> THEN TRUE
    ELSE IF Ord[Head(a)] # Ord[Head(b)] THEN Ord[Head(a)] < Ord[Head(b)]
    ELSE StrLess(Tail(a), Tail(b))

\* ------------------------------------------------------------------------
\* Dates: the ISO string <<MM, DD>> of 2026 and its parsed day of the year
\* ------------------------------------------------------------------------

\* the missing date; it is no day of the year
NaT == 0 - 1

DAYS_IN_MONTH == <<31, 28, 31, 30, 31, 30, 31, 31, 30, 31, 30, 31>>

IsIsoDate(s) ==
    /\ s \in Seq(Nat)
    /\ Len(s) = 2
    /\ s[1] \in 1..Len(DAYS_IN_MONTH)
    /\ s[2] \in 1..DAYS_IN_MONTH[s[1]]

\* the days of the year before month m
DaysBefore == [m \in 1..Len(DAYS_IN_MONTH) |-> SumSeq(SubSeq(DAYS_IN_MONTH, 1, m - 1))]

DayOfYear(s) == s[2] + DaysBefore[s[1]]

\* pd.to_datetime(s, format=DATE_FMT, errors="coerce")
to_datetime(s) == IF IsIsoDate(s) THEN DayOfYear(s) ELSE NaT

\* the ISO string of each day of the year
IsoOfDay == [d \in 1..SumSeq(DAYS_IN_MONTH) |->
    LET m == CHOOSE k \in 1..Len(DAYS_IN_MONTH) :
                 DaysBefore[k] < d /\ d <= DaysBefore[k] + DAYS_IN_MONTH[k]
    IN  <<m, d - DaysBefore[m]>>]

\* d.strftime(DATE_FMT)
strftime(d) == IsoOfDay[d]

\* a <= b for ISO date strings, field by field
IsoLeq(a, b) == a[1] < b[1] \/ (a[1] = b[1] /\ a[2] <= b[2])

\* ------------------------------------------------------------------------
\* city.py
\* ------------------------------------------------------------------------

\* the rows of s that satisfy keep, in order (boolean indexing, dropna)
RECURSIVE Keep(_, _)
Keep(s, keep) ==
    IF s = <<>> THEN <<>>
    ELSE IF Head(s) \in keep THEN <<Head(s)>> \o Keep(Tail(s), keep)
    ELSE Keep(Tail(s), keep)

SetCol(row, col, value) ==
    Fcn([c \in DOMAIN row \cup {col} |-> IF c = col THEN value ELSE row[c]])

DropCol(row, col) == Fcn([c \in DOMAIN row \ {col} |-> row[c]])

\* a slip: the requested names compared as typed
cities_raw(cities) == cities

\* cities_norm = [c.strip().lower() for c in cities if c and c.strip()]
RECURSIVE cities_norm(_)
cities_norm(cities) ==
    IF cities = <<>> THEN <<>>
    ELSE IF Head(cities) # <<>> /\ strip(Head(cities)) # <<>>
         THEN <<lower(strip(Head(cities)))>> \o cities_norm(Tail(cities))
         ELSE cities_norm(Tail(cities))

\* df["city"] = df["city"].astype(str).str.strip(); df["city_norm"] = ...lower()
NormalizeCity(row) ==
    LET city == strip(row["city"])
    IN  SetCol(SetCol(row, "city", city), "city_norm", lower(city))

ParseDates(row) ==
    SetCol(SetCol(row, "start_date", to_datetime(row["start_date"])),
           "end_date", to_datetime(row["end_date"]))

\* (df["start_date"] <= trip_end) & (df["end_date"] >= trip_start)
Overlaps(row, trip_start, trip_end) ==
    row["start_date"] <= trip_end /\ row["end_date"] >= trip_start

\* a start_time "HH:MM" is <<HH, MM>>; the missing one is <<>>
NaN == <<>>

\* start_time order with na_position="last"
TimeLess(a, b) ==
    a # NaN /\ (b = NaN \/ a[1] < b[1] \/ (a[1] = b[1] /\ a[2] < b[2]))

\* the order of sort_values(by=["city", "start_date", "start_time"])
FilterRowLess(a, b) ==
    \/ StrLess(a["city"], b["city"])
    \/ /\ a["city"] = b["city"]
       /\ \/ a["start_date"] < b["start_date"]
          \/ /\ a["start_date"] = b["start_date"]
             /\ TimeLess(a["start_time"], b["start_time"])

\* a slip: a sort that reverses the order of equal rows
ReverseTieSort(rows, before) ==
    LET n == Len(rows)
        p == CHOOSE q \in Perms(n) :
                 \A i, j \in 1..n : i < j =>
                     /\ <<q[j], q[i]>> \notin before
                     /\ (<<q[i], q[j]>> \notin before => q[i] > q[j])
    IN  List([i \in 1..n |-> rows[p[i]]])

\* the stable sort of rows, before being the pairs of positions <<i, j>> whose
\* row i orders strictly before row j: equal rows keep their order
StableSort(rows, before) ==
    LET n == Len(rows)
        p == CHOOSE q \in Perms(n) :
                 \A i, j \in 1..n : i < j =>
                     /\ <<q[j], q[i]>> \notin before
                     /\ (<<q[i], q[j]>> \notin before => q[i] < q[j])
    IN  List([i \in 1..n |-> rows[p[i]]])

filter_events_by_city_and_date(cities, trip_start_date, trip_end_date) ==
    LET df0 == List([i \in 1..Len(catalog_csv.rows) |->
                        NormalizeCity(catalog_csv.rows[i])])
        norm == cities_norm(cities)
    IN  IF norm = <<>>
        THEN [columns |-> catalog_csv.columns \cup {"city_norm"}, rows |-> <<>>]
        ELSE
          LET df1 == List([i \in 1..Len(df0) |-> ParseDates(df0[i])])
              df2 == Keep(df1, {r \in Range(df1) :
                          r["start_date"] # NaT /\ r["end_date"] # NaT})
              trip_start == to_datetime(trip_start_date)
              trip_end == to_datetime(trip_end_date)
              df3 == Keep(df2, {r \in Range(df2) : r["city_norm"] \in Range(norm)})
              df4 == Keep(df3, {r \in Range(df3) : Overlaps(r, trip_start, trip_end)})
              df5 == List([i \in 1..Len(df4) |-> DropCol(df4[i], "city_norm")])
          IN  [columns |-> catalog_csv.columns,
               rows |-> StableSort(df5, {ij \in (1..Len(df5)) \X (1..Len(df5)) :
                FilterRowLess(df5[ij[1]], df5[ij[2]])})]

\* df.to_csv(output_csv, index=False): dates are written in ISO form
to_csv(table) ==
    [columns |-> table.columns,
     rows |-> List([i \in 1..Len(table.rows) |->
                 Fcn([c \in DOMAIN table.rows[i] |->
                     IF c \in {"start_date", "end_date"} /\ table.rows[i][c] \in Nat
                     THEN strftime(table.rows[i][c])
                     ELSE table.rows[i][c]])])]

\* a slip: the output file opened, and so emptied, before the check
RaiseAfterOpen(file) == [columns |-> {}, rows |-> <<>>]

\* an exception that nothing catches ends the script where it is raised: a
\* file the script has not opened yet stays as it was
Raise(file) == file

\* pd.to_datetime(trip_start_date, format=DATE_FMT) raises on a string that
\* is no date; the line is reached only when some city is requested
FilterRaises(cities, trip_start_date, trip_end_date) ==
    /\ cities_norm(cities) # <<>>
    /\ ~(IsIsoDate(trip_start_date) /\ IsIsoDate(trip_end_date))

\* city.py, the whole script (run_city_filter does the same)
RunCityFilter ==
    /\ pc = "start"
    /\ IF FilterRaises(cities_arg, start_arg, end_arg)
       THEN /\ filtered_csv' = Raise(filtered_csv)
            /\ pc' = "filter_failed"
       ELSE /\ filtered_csv' = to_csv(
                   filter_events_by_city_and_date(cities_arg, start_arg, end_arg))
            /\ pc' = "filtered"
    /\ UNCHANGED <<catalog_csv, cities_arg, start_arg, end_arg, input_json, final_csv,
                   plan_json, itinVars, appVars>>

\* ------------------------------------------------------------------------
\* relevance.py
\* ------------------------------------------------------------------------

\* one unit of a four-decimal float: round(score, 4)
SCALE == 10000

TOURISM_BIAS == 4000

CATEGORIES == <<
    "religious_spiritual", "literature_poetry", "art_exhibition",
    "dance_performing", "film_media", "comedy_standup", "music_classical_folk",
    "music_contemporary", "nightlife", "celebrity_event", "food_culinary",
    "fashion_lifestyle", "wellness_mental", "nature_outdoor", "education_workshop",
    "technology_innovation", "hackathon_coding", "startup_business",
    "academic_conference", "roadshow", "airshow_aviation", "auto_motor",
    "gaming_esports", "science_space", "sports_fitness", "adventure_extreme",
    "community_social", "government_public", "trade_expo",
    "sunset_view", "sunrise_view", "seaside_beach", "mountain_climbing",
    "boating_cruise", "wildlife_safari", "desert_experience", "snow_activity",
    "heritage_walk", "street_festival", "local_fair", "lake_activity",
    "forest_trail", "island_experience", "river_ghat" >>

TOURISM_CATEGORIES == {
    "seaside_beach", "cultural_heritage", "heritage_walk",
    "sunset_view", "sunrise_view", "mountain_climbing",
    "boating_cruise", "lake_activity", "island_experience",
    "river_ghat", "desert_experience", "snow_activity",
    "wildlife_safari", "forest_trail" }

\* gemini.py: the categories of the interest vector written to input.json
GEMINI_CATEGORIES == <<
    "religious_spiritual", "cultural_heritage", "literature_poetry", "art_exhibition",
    "dance_performing", "film_media", "comedy_standup", "music_classical_folk",
    "music_contemporary", "nightlife", "celebrity_event", "food_culinary",
    "fashion_lifestyle", "wellness_mental", "nature_outdoor", "education_workshop",
    "technology_innovation", "hackathon_coding", "startup_business",
    "academic_conference", "roadshow", "airshow_aviation", "auto_motor",
    "gaming_esports", "science_space", "sports_fitness", "adventure_extreme",
    "community_social", "government_public", "trade_expo",
    "sunset_view", "sunrise_view", "seaside_beach", "mountain_climbing",
    "boating_cruise", "wildlife_safari", "desert_experience", "snow_activity",
    "heritage_walk", "street_festival", "local_fair", "lake_activity",
    "forest_trail", "island_experience", "river_ghat" >>

\* dict.get / Series.get with a default
Get(d, k, default) == IF k \in DOMAIN d THEN d[k] ELSE default

\* the loop of compute_relevance over CATEGORIES[i..]: <<score, weight_sum>>
RECURSIVE Accumulate(_, _, _)
Accumulate(event_row, vector, i) ==
    IF i > Len(CATEGORIES) THEN <<0, 0>>
    ELSE LET cat == CATEGORIES[i]
             user_weight == Get(vector, cat, 0)
             event_value == Get(event_row, cat, 0)
             rest == Accumulate(event_row, vector, i + 1)
         IN  IF event_value > 0 /\ user_weight > 0
             THEN <<rest[1] + user_weight * event_value, rest[2] + user_weight>>
             ELSE rest

\* the score before the tourism bias is added
PreBiasScore(event_row, vector) ==
    LET acc == Accumulate(event_row, vector, 1)
    IN  IF acc[2] > 0 THEN (acc[1] * SCALE) \div acc[2] ELSE 0

\* a slip: the bias test run over the scorer's own category list
HasAnyCategory(event_row) ==
    \E i \in 1..Len(CATEGORIES) : Get(event_row, CATEGORIES[i], 0) = 1

HasTourismCategory(event_row) ==
    \E cat \in TOURISM_CATEGORIES : Get(event_row, cat, 0) = 1

\* a slip: the bias applied as a factor instead of a summand
BiasedScoreMultiplicative(event_row, vector) ==
    IF HasTourismCategory(event_row)
    THEN (PreBiasScore(event_row, vector) * (SCALE + TOURISM_BIAS)) \div SCALE
    ELSE PreBiasScore(event_row, vector)

BiasedScore(event_row, vector) ==
    PreBiasScore(event_row, vector)
        + (IF HasTourismCategory(event_row) THEN TOURISM_BIAS ELSE 0)

\* a slip: the score floored at 0 but not capped at 1
ClampLowOnly(x) == Max2(0, x)

Clamp(x) == Max2(0, Min2(SCALE, x))

compute_relevance(event_row, user_vector) ==
    Clamp(BiasedScore(event_row, user_vector))

REQUIRED_SCORER_COLS == {"event_name", "city", "state", "start_date", "end_date"}

FINAL_COLS ==
    {"event_name", "city", "state", "relevance_score", "start_date", "end_date"}

\* df[cat] = 0 for every category column the table lacks
WithCategoryColumns(row) ==
    Fcn([c \in DOMAIN row \cup Range(CATEGORIES) |-> Get(row, c, 0)])

\* df["relevance_score"] = df.apply(compute_relevance, axis=1)
Scored(row, user_vector) ==
    Fcn([c \in DOMAIN row \cup {"relevance_score"} |->
        IF c = "relevance_score" THEN compute_relevance(row, user_vector)
        ELSE row[c]])

Project(row, cols) == Fcn([c \in cols |-> row[c]])

IsNonIncreasing(rows, key) ==
    \A i \in 1..(Len(rows) - 1) : rows[i][key] >= rows[i + 1][key]

\* sort_values(by="relevance_score", ascending=False): the default sort is
\* not stable, so rows of equal score may come out in any order
SortedByRelevanceDesc(rows) ==
    {List([i \in 1..Len(rows) |-> rows[p[i]]]) : p \in
        {q \in Perms(Len(rows)) :
            IsNonIncreasing(List([i \in 1..Len(rows) |-> rows[q[i]]]), "relevance_score")}}

\* relevance.py, the whole script
RunRelevance ==
    /\ pc = "filtered"
    /\ IF ~(REQUIRED_SCORER_COLS \subseteq filtered_csv.columns)
       THEN /\ pc' = "relevance_failed"
            /\ final_csv' = Raise(final_csv)
       ELSE LET scored == List([i \in 1..Len(filtered_csv.rows) |->
                             Project(
                                 Scored(WithCategoryColumns(filtered_csv.rows[i]),
                                        input_json),
                                 FINAL_COLS)])
            IN  /\ \E sorted \in SortedByRelevanceDesc(scored) :
                      final_csv' = [columns |-> FINAL_COLS, rows |-> sorted]
                /\ pc' = "scored"
    /\ UNCHANGED <<catalog_csv, cities_arg, start_arg, end_arg, input_json, filtered_csv,
                   plan_json, itinVars, appVars>>

\* ------------------------------------------------------------------------
\* planner.py
\* ------------------------------------------------------------------------

\* "explore", "attractions"
FLEXIBLE_KEYWORDS == <<
    <<"e", "x", "p", "l", "o", "r", "e">>,
    <<"a", "t", "t", "r", "a", "c", "t", "i", "o", "n", "s">> >>

\* 0.5, in ten-thousandths
W_RELEVANCE == 5000
W_DENSITY == 5000

\* k in name
Contains(name, k) ==
    \E i \in 0..(Len(name) - Len(k)) : SubSeq(name, i + 1, i + Len(k)) = k

is_flexible_event(event_name) ==
    LET name == lower(event_name)
    IN  \A i \in 1..Len(FLEXIBLE_KEYWORDS) : Contains(name, FLEXIBLE_KEYWORDS[i])

event_duration(start, end) == (end - start) + 1

\* a slip: the day after an event counted as a gap day
gap_days_inclusive(events, i) == Max2(0, events[i + 1]["start"] - events[i]["end"])

\* max(0, gap) of events[i] and events[i + 1]
gap_days(events, i) == Max2(0, (events[i + 1]["start"] - events[i]["end"]) - 1)

\* average_gap_days as the fraction <<sum(gaps), len(gaps)>>; 0.0 is <<0, 1>>
average_gap_days(events) ==
    IF Len(events) <= 1 THEN <<0, 1>>
    ELSE <<SumSeq(List([i \in 1..(Len(events) - 1) |-> gap_days(events, i)])),
           Len(events) - 1>>

\* round(num / den, 0) for num >= 0, den > 0
Round(num, den) == (2 * num + den) \div (2 * den)

\* round(W_RELEVANCE * mean_relevance + W_DENSITY * density_score, 4)
city_score(fixed_events) ==
    IF fixed_events = <<>> THEN 0
    ELSE LET n == Len(fixed_events)
             sum_rel == SumSeq(List([i \in 1..n |-> fixed_events[i]["relevance"]]))
             avg_gap == average_gap_days(fixed_events)
             \* density_score = 1 / (1 + avg_gap) = avg_gap[2] / (avg_gap[2] + avg_gap[1])
             dens_num == avg_gap[2]
             dens_den == avg_gap[2] + avg_gap[1]
         IN  Round(W_RELEVANCE * sum_rel * dens_den + W_DENSITY * SCALE * dens_num * n,
                   SCALE * n * dens_den)

REQUIRED_PLANNER_COLS ==
    {"event_name", "city", "start_date", "end_date", "relevance_score"}

\* a slip: a city is grouped only once it has a fixed event
RECURSIVE GroupKeysOfFixed(_)
GroupKeysOfFixed(rows) ==
    IF rows = <<>> THEN <<>>
    ELSE LET rest == GroupKeysOfFixed(SubSeq(rows, 1, Len(rows) - 1))
             last == rows[Len(rows)]
         IN  IF is_flexible_event(last["event_name"]) \/ last["city"] \in Range(rest)
             THEN rest
             ELSE Append(rest, last["city"])

\* the cities of the rows, in the order of their first row: groupby(sort=False)
RECURSIVE GroupKeys(_)
GroupKeys(rows) ==
    IF rows = <<>> THEN <<>>
    ELSE LET rest == GroupKeys(SubSeq(rows, 1, Len(rows) - 1))
             city == rows[Len(rows)]["city"]
         IN  IF city \in Range(rest) THEN rest ELSE Append(rest, city)

FixedEvent(row) ==
    [name |-> row["event_name"], type |-> "fixed_event",
     start |-> row["start_date"], end |-> row["end_date"],
     duration_days |-> event_duration(row["start_date"], row["end_date"]),
     relevance |-> row["relevance_score"]]

FlexibleEvent(row) ==
    [name |-> row["event_name"], type |-> "flexible_activity",
     duration_days |-> 1, relevance |-> row["relevance_score"]]

OutputFixedEvent(e) ==
    [name |-> e.name, type |-> "fixed_event",
     start_date |-> strftime(e.start), end_date |-> strftime(e.end),
     duration_days |-> e.duration_days, relevance |-> e.relevance]

ByStart(a, b) == a["start"] < b["start"]

ByRelevanceDesc(a, b) == a["relevance"] > b["relevance"]

\* the order of ISO date strings
ByCityStartDate(a, b) ==
    ~IsoLeq(b["city_start_date"], a["city_start_date"])

\* fixed_events[-1]["end"]
LastEnd(fixed_events) == fixed_events[Len(fixed_events)]["end"]

SortEvents(events) ==
    StableSort(events, {ij \in (1..Len(events)) \X (1..Len(events)) :
                ByRelevanceDesc(events[ij[1]], events[ij[2]])})

\* a slip: the cities left in the order of their first rows
UnsortedCities(city_plans) == city_plans

SortCities(city_plans) ==
    StableSort(city_plans, {ij \in (1..Len(city_plans)) \X (1..Len(city_plans)) :
                ByCityStartDate(city_plans[ij[1]], city_plans[ij[2]])})

\* the body of the loop over the city groups
CityPlan(city, city_df, trip_start, trip_end) ==
    LET fixed_rows == Keep(city_df,
            {r \in Range(city_df) : ~is_flexible_event(r["event_name"])})
        flexible_rows == Keep(city_df,
            {r \in Range(city_df) : is_flexible_event(r["event_name"])})
        unsorted_events ==
            List([i \in 1..Len(fixed_rows) |-> FixedEvent(fixed_rows[i])])
        fixed_events ==
            StableSort(unsorted_events, {ij \in (1..Len(unsorted_events)) \X (1..Len(unsorted_events)) :
                ByStart(unsorted_events[ij[1]], unsorted_events[ij[2]])})
        flexible_events ==
            List([i \in 1..Len(flexible_rows) |-> FlexibleEvent(flexible_rows[i])])
        city_start_date ==
            IF fixed_events # <<>> THEN fixed_events[1]["start"] ELSE trip_start
        city_end_date ==
            IF fixed_events # <<>> THEN LastEnd(fixed_events) ELSE trip_end
        output_events ==
            List([i \in 1..Len(fixed_events) |-> OutputFixedEvent(fixed_events[i])])
                \o flexible_events
    IN  [city |-> city,
         city_score |-> city_score(fixed_events),
         city_start_date |-> strftime(city_start_date),
         city_end_date |-> strftime(city_end_date),
         events |-> SortEvents(output_events)]

\* df.dropna(subset=["start_date", "end_date", "city"]), after the parse
DropNa(rows) ==
    Keep(rows, {r \in Range(rows) :
        r["start_date"] # NaT /\ r["end_date"] # NaT /\ r["city"] # NaN})

\* datetime.strptime raises on a --start or --end that is no date, and the
\* required_cols check raises on a final.csv that lacks a column
PlannerRaises(start, end, table) ==
    \/ ~(IsIsoDate(start) /\ IsIsoDate(end))
    \/ ~(REQUIRED_PLANNER_COLS \subseteq table.columns)

\* planner.py, the whole script
RunPlanner ==
    /\ pc = "scored"
    /\ IF PlannerRaises(start_arg, end_arg, final_csv)
       THEN /\ pc' = "planner_failed"
            /\ plan_json' = Raise(plan_json)
       ELSE LET trip_start == to_datetime(start_arg)
                trip_end == to_datetime(end_arg)
                parsed == List([i \in 1..Len(final_csv.rows) |->
                                   ParseDates(final_csv.rows[i])])
                kept == DropNa(parsed)
                df == List([i \in 1..Len(kept) |->
                              SetCol(kept[i], "city", strip(kept[i]["city"]))])
                keys == GroupKeys(df)
                city_plans ==
                    List([k \in 1..Len(keys) |->
                        CityPlan(keys[k],
                                 Keep(df, {r \in Range(df) : r["city"] = keys[k]}),
                                 trip_start, trip_end)])
            IN  /\ plan_json' = [trip_start |-> start_arg,
                                 trip_end |-> end_arg,
                                 cities |-> SortCities(city_plans)]
                /\ pc' = "planned"
    /\ UNCHANGED <<catalog_csv, cities_arg, start_arg, end_arg, input_json, filtered_csv,
                   final_csv, itinVars, appVars>>

\* ------------------------------------------------------------------------
\* gemini_itinerary.py
\* ------------------------------------------------------------------------

\* the script has not run
ItineraryIdle ==
    /\ API_KEYS = None
    /\ key_index = 0
    /\ last_error = None
    /\ tried = <<>>
    /\ itinerary = None

\* what one attempt can come to: a response that parses, a ClientError of
\* the call, a JSONDecodeError of json.loads, or any other exception (a
\* server error, a response without text)
OUTCOMES == {"parsed", "ClientError", "JSONDecodeError", "other"}

\* except (ClientError, json.JSONDecodeError)
CAUGHT == {"ClientError", "JSONDecodeError"}

\* json.loads(raw) of the response to the call made with API_KEYS[i]
Response(i) == [response_to_key |-> i]

\* the date_info of an activity of the fallback
DateInfo(c, e) ==
    IF e["type"] = "fixed_event"
    THEN [from |-> e["start_date"], to |-> e["end_date"]]
    ELSE [any_free_day_in |-> c["city"], days |-> 1]

\* the "activities" of a city of the fallback
Activities(c) ==
    List([j \in 1..Len(c["events"]) |->
        LET e == c["events"][j]
        IN  [title |-> e["name"], type |-> e["type"], date_info |-> DateInfo(c, e),
             description |-> "Planned activity during your visit.",
             relevance_note |-> "This activity aligns with your interests."]])

\* the dict returned after the loop
FallbackItinerary(plan) ==
    [trip_summary |->
        [start_date |-> plan["trip_start"],
         end_date |-> plan["trip_end"],
         cities_covered |->
             List([i \in 1..Len(plan["cities"]) |-> plan["cities"][i]["city"]])],
     itinerary |->
        List([i \in 1..Len(plan["cities"]) |->
            LET c == plan["cities"][i]
            IN  [city |-> c["city"],
                 visit_window |-> [start_date |-> c["city_start_date"],
                                   end_date |-> c["city_end_date"]],
                 city_overview |-> "This city is included in your trip itinerary.",
                 city_reason |->
                     "This city contains events aligned with your selected interests.",
                 activities |-> Activities(c)]])]

\* the script up to the call of generate_itinerary: without a key it raises
\* EnvironmentError, else it loads plan.json and enters the loop
StartItinerary ==
    /\ pc = "planned"
    /\ IF API_KEYS = <<>>
       THEN pc' = "itinerary_failed" /\ UNCHANGED key_index
       ELSE pc' = "generating" /\ key_index' = 1
    /\ UNCHANGED <<catalog_csv, cities_arg, start_arg, end_arg, input_json,
                   filtered_csv, final_csv, plan_json, API_KEYS, last_error, tried,
                   itinerary, appVars>>

\* a slip: the loop starts over after a failed attempt
RetryFromFirst(i) == 1

\* continue: the loop goes on to the key after API_KEYS[i]
NextKey(i) == i + 1

\* one pass of the loop "for api_key in API_KEYS"
TryKey ==
    /\ pc = "generating"
    /\ key_index <= Len(API_KEYS)
    /\ \E outcome \in OUTCOMES :
          /\ tried' = Append(tried, <<key_index, outcome>>)
          /\ CASE outcome = "parsed" ->
                    /\ itinerary' = Response(key_index)
                    /\ pc' = "itinerary_written"
                    /\ UNCHANGED <<key_index, last_error>>
               [] outcome \in CAUGHT ->
                    /\ last_error' = outcome
                    /\ key_index' = NextKey(key_index)
                    /\ UNCHANGED <<pc, itinerary>>
               [] OTHER ->
                    /\ pc' = "itinerary_failed"
                    /\ UNCHANGED <<key_index, last_error, itinerary>>
    /\ UNCHANGED <<catalog_csv, cities_arg, start_arg, end_arg, input_json,
                   filtered_csv, final_csv, plan_json, API_KEYS, appVars>>

\* the loop has run out of keys: the fail-safe fallback
ReturnFallback ==
    /\ pc = "generating"
    /\ key_index > Len(API_KEYS)
    /\ itinerary' = FallbackItinerary(plan_json)
    /\ pc' = "itinerary_written"
    /\ UNCHANGED <<catalog_csv, cities_arg, start_arg, end_arg, input_json,
                   filtered_csv, final_csv, plan_json, API_KEYS, key_index,
                   last_error, tried, appVars>>

\* ------------------------------------------------------------------------
\* app.py
\* ------------------------------------------------------------------------

\* the scripts of the "try" block, in the order of their subprocess.run calls
STAGES == <<"gemini.py", "city.py", "relevance.py", "planner.py", "gemini_itinerary.py">>

\* the front end is not in use
AppIdle ==
    /\ widgets = None
    /\ app_pc = "idle"
    /\ stage = 0
    /\ started = <<>>
    /\ exited = <<>>
    /\ displayed = FALSE

\* st.button pressed: the script runs from the top to the "try" block
ClickGenerate ==
    /\ app_pc \in {"idle", "stopped", "shown"}
    /\ started' = <<>>
    /\ exited' = <<>>
    /\ displayed' = FALSE
    /\ IF strip(widgets.interest_text) = <<>> \/ widgets.selected_cities = <<>>
       THEN /\ app_pc' = "stopped"
            /\ stage' = 0
       ELSE /\ app_pc' = "ready"
            /\ stage' = 1
    /\ UNCHANGED <<widgets, scriptVars>>

\* status.write(...) and subprocess.run(...) spawning the stage's script
StartStage ==
    /\ app_pc = "ready"
    /\ started' = Append(started, STAGES[stage])
    /\ app_pc' = "waiting"
    /\ UNCHANGED <<widgets, stage, exited, displayed, scriptVars>>

\* a slip: check=True left out, so a failed stage is followed by the next
AfterExitUnchecked(returncode) ==
    IF stage < Len(STAGES) THEN <<"ready", stage + 1>> ELSE <<"complete", stage>>

\* where subprocess.run(check=True) leaves the run: <<app_pc, stage>>
AfterExit(returncode) ==
    IF returncode # 0 THEN <<"stopped", stage>>
    ELSE IF stage < Len(STAGES) THEN <<"ready", stage + 1>>
    ELSE <<"complete", stage>>

\* the script exits; CalledProcessError is caught and st.stop() ends the run
ExitStage ==
    /\ app_pc = "waiting"
    /\ \E returncode \in {0, 1} :
          /\ exited' = Append(exited, returncode)
          /\ app_pc' = AfterExit(returncode)[1]
          /\ stage' = AfterExit(returncode)[2]
    /\ UNCHANGED <<widgets, started, displayed, scriptVars>>

\* status.update(state="complete"), then itinerary.json is read and shown
DisplayResult ==
    /\ app_pc = "complete"
    /\ displayed' = TRUE
    /\ app_pc' = "shown"
    /\ UNCHANGED <<widgets, stage, started, exited, scriptVars>>


\* ------------------------------------------------------------------------
\* The scorer on its own: every filtered.csv and input.json of the bounds
\* ------------------------------------------------------------------------

CatPool == SubSeq(<<"music_contemporary", "heritage_walk", "cultural_heritage",
                    "nightlife", "seaside_beach">>, 1, NumCats)

Weights == {0, SCALE \div 2, SCALE}

CATALOG_COLS ==
    {"event_name", "city", "state", "start_date", "end_date", "start_time"}
        \cup Range(CatPool)

InterestVectors ==
    {[c \in Range(GEMINI_CATEGORIES) |-> Get(w, c, 0)] :
        w \in [Range(CatPool) -> Weights]}

\* "Fair", "Explore Attractions", "Explore", "attractions to explore"
EventNames == <<
    <<"F", "a", "i", "r">>,
    <<"E", "x", "p", "l", "o", "r", "e", " ",
      "A", "t", "t", "r", "a", "c", "t", "i", "o", "n", "s">>,
    <<"E", "x", "p", "l", "o", "r", "e">>,
    <<"a", "t", "t", "r", "a", "c", "t", "i", "o", "n", "s", " ", "t", "o", " ",
      "e", "x", "p", "l", "o", "r", "e">> >>

Names(rows) == {rows[i]["event_name"] : i \in 1..Len(rows)}

NoDuplicates(rows) == Cardinality(Names(rows)) = Len(rows)

\* the rows of a table carry the names EventNames[1], EventNames[2], ...
NamedInOrder(rows) == \A i \in 1..Len(rows) : rows[i]["event_name"] = EventNames[i]

ScoreRows ==
    {[c \in CATALOG_COLS |->
        CASE c = "event_name" -> n
          [] c = "city" -> <<"G", "o", "a">>
          [] c = "state" -> <<"G", "o", "a">>
          [] c = "start_date" -> <<1, 31>>
          [] c = "end_date" -> <<1, 31>>
          [] c = "start_time" -> NaN
          [] OTHER -> v[c]] : v \in [Range(CatPool) -> {0, 1}], n \in Range(EventNames)}

InitScore ==
    /\ pc = "filtered"
    /\ catalog_csv = None
    /\ cities_arg = None
    /\ start_arg = None
    /\ end_arg = None
    /\ input_json \in InterestVectors
    /\ \E rows \in SeqsUpTo(ScoreRows, MaxRows) :
          /\ NamedInOrder(rows)
          /\ filtered_csv = [columns |-> CATALOG_COLS, rows |-> rows]
    /\ final_csv = None
    /\ plan_json = None
    /\ ItineraryIdle
    /\ AppIdle

NextScore == RunRelevance

SpecScore == InitScore /\ [][NextScore]_vars


\* ------------------------------------------------------------------------
\* The filter on its own: every catalog and request of the bounds
\* ------------------------------------------------------------------------

\* "Goa ", "pune", " "
CatalogCities == {<<"G", "o", "a", " ">>, <<"p", "u", "n", "e">>, <<" ">>}

\* "goa", " GOA", "Pune", " "
RequestedCities ==
    {<<"g", "o", "a">>, <<" ", "G", "O", "A">>, <<"P", "u", "n", "e">>, <<" ">>}

RequestLists == SeqsUpTo(RequestedCities, MaxCities)

IsoDates == {strftime(d) : d \in 31..(30 + NumDays)}

\* "2026-02-30", which does not parse
BadDate == <<2, 30>>

\* the dates of a catalog row: both ISO dates, or one of them unparsable
\* beside a date inside every trip window's reach
CatalogDatePairs ==
    (IsoDates \X IsoDates) \cup {<<BadDate, strftime(32)>>, <<strftime(32), BadDate>>}

\* the first event of a table has no start_time, the later ones "09:00"
StartTimeOf(n) == IF n = EventNames[1] THEN NaN ELSE <<9, 0>>

CatalogRows ==
    {[c \in CATALOG_COLS |->
        CASE c = "event_name" -> n
          [] c = "city" -> city
          [] c = "state" -> <<"G", "o", "a">>
          [] c = "start_date" -> dates[1]
          [] c = "end_date" -> dates[2]
          [] c = "start_time" -> StartTimeOf(n)
          [] OTHER -> 0] :
        n \in Range(EventNames), city \in CatalogCities,
        dates \in CatalogDatePairs}

\* trip dates as the front end supplies them: ISO dates, start <= end
TripWindows == {w \in IsoDates \X IsoDates : IsoLeq(w[1], w[2])}

InitFilter ==
    /\ pc = "start"
    /\ \E rows \in SeqsUpTo(CatalogRows, MaxRows) :
          /\ NamedInOrder(rows)
          /\ catalog_csv = [columns |-> CATALOG_COLS, rows |-> rows]
    /\ cities_arg \in RequestLists
    /\ \E w \in TripWindows : start_arg = w[1] /\ end_arg = w[2]
    /\ input_json = None
    /\ filtered_csv = None
    /\ final_csv = None
    /\ plan_json = None
    /\ ItineraryIdle
    /\ AppIdle

NextFilter == RunCityFilter

SpecFilter == InitFilter /\ [][NextFilter]_vars

\* ------------------------------------------------------------------------
\* The plan builder on its own: every final.csv the scorer can have written
\* from a filtered.csv of the trip window
\* ------------------------------------------------------------------------

\* "Goa", "Pune"
PlanCities == {<<"G", "o", "a">>, <<"P", "u", "n", "e">>}

\* the scores an event with category values 0 and 1 can get
Scores == {0, TOURISM_BIAS, SCALE}

PlanRows ==
    {[c \in FINAL_COLS |->
        CASE c = "event_name" -> n
          [] c = "city" -> city
          [] c = "state" -> <<"G", "o", "a">>
          [] c = "relevance_score" -> score
          [] c = "start_date" -> dates[1]
          [] c = "end_date" -> dates[2]] :
        n \in Range(EventNames), city \in PlanCities, score \in Scores,
        dates \in IsoDates \X IsoDates}

InitPlan ==
    /\ pc = "scored"
    /\ \E w \in TripWindows :
          /\ start_arg = w[1]
          /\ end_arg = w[2]
          /\ \E rows \in SeqsUpTo(
                    {r \in PlanRows : /\ IsoLeq(r["start_date"], w[2])
                                      /\ IsoLeq(w[1], r["end_date"])}, MaxRows) :
                /\ NoDuplicates(rows)
                /\ IsNonIncreasing(rows, "relevance_score")
                /\ final_csv = [columns |-> FINAL_COLS, rows |-> rows]
    /\ catalog_csv = None
    /\ cities_arg = None
    /\ input_json = None
    /\ filtered_csv = None
    /\ plan_json = None
    /\ ItineraryIdle
    /\ AppIdle

NextPlan == RunPlanner

SpecPlan == InitPlan /\ [][NextPlan]_vars

\* ------------------------------------------------------------------------
\* The three scripts in a row, as the command line runs them: each script
\* reads what the one before wrote, over the files an earlier run left
\* ------------------------------------------------------------------------

\* "goa"; "goa", "Pune"; and no city at all
PipelineRequests ==
    {<<>>, <<<<"g", "o", "a">>>>, <<<<"g", "o", "a">>, <<"P", "u", "n", "e">>>>}

\* the first event of the catalog is a heritage walk, the others carry no
\* category
PipelineRows ==
    {[c \in CATALOG_COLS |->
        CASE c = "event_name" -> n
          [] c = "city" -> city
          [] c = "state" -> <<"G", "o", "a">>
          [] c = "start_date" -> dates[1]
          [] c = "end_date" -> dates[2]
          [] c = "start_time" -> StartTimeOf(n)
          [] c = "heritage_walk" -> IF n = EventNames[1] THEN 1 ELSE 0
          [] OTHER -> 0] :
        n \in Range(EventNames),
        city \in {<<"G", "o", "a", " ">>, <<"p", "u", "n", "e">>},
        dates \in IsoDates \X IsoDates}

\* a catalog with every column, or one without the column "state"
PipelineColumns == {CATALOG_COLS, CATALOG_COLS \ {"state"}}

\* --start and --end as typed on the command line: a trip window, or a start
\* that is no date
PipelineWindows == TripWindows \cup {<<BadDate, strftime(32)>>}

\* a file that is not on disk
Absent == [exists |-> FALSE]

\* the artifacts of an earlier run
OldFiltered ==
    [columns |-> CATALOG_COLS,
     rows |-> <<[c \in CATALOG_COLS |->
                  CASE c \in {"event_name", "city", "state"} -> <<"G", "o", "a">>
                    [] c \in {"start_date", "end_date"} -> <<1, 31>>
                    [] c = "start_time" -> NaN
                    [] OTHER -> 0]>>]

OldFinal ==
    [columns |-> FINAL_COLS,
     rows |-> <<[c \in FINAL_COLS |->
                  CASE c \in {"event_name", "city", "state"} -> <<"G", "o", "a">>
                    [] c \in {"start_date", "end_date"} -> <<1, 31>>
                    [] OTHER -> 0]>>]

OldPlan == [trip_start |-> <<1, 31>>, trip_end |-> <<1, 31>>, cities |-> <<>>]

InitPipeline ==
    /\ pc = "start"
    /\ \E rows \in SeqsUpTo(PipelineRows, MaxRows), cols \in PipelineColumns :
          /\ NamedInOrder(rows)
          /\ catalog_csv =
                [columns |-> cols,
                 rows |-> List([i \in 1..Len(rows) |-> Project(rows[i], cols)])]
    /\ cities_arg \in PipelineRequests
    /\ \E w \in PipelineWindows : start_arg = w[1] /\ end_arg = w[2]
    /\ input_json \in {v \in InterestVectors :
                          \A c \in DOMAIN v : c # "heritage_walk" => v[c] = 0}
    /\ \/ filtered_csv = Absent /\ final_csv = Absent /\ plan_json = Absent
       \/ filtered_csv = OldFiltered /\ final_csv = OldFinal /\ plan_json = OldPlan
    /\ ItineraryIdle
    /\ AppIdle

NextPipeline == RunCityFilter \/ RunRelevance \/ RunPlanner

SpecPipeline == InitPipeline /\ [][NextPipeline]_vars

\* ------------------------------------------------------------------------
\* The plan builder followed by the itinerary script: every key list of the
\* bounds, every outcome of every attempt
\* ------------------------------------------------------------------------

\* GEMINI_API_KEYS: any list of keys, a key twice included; the empty list
\* stands for an environment without keys
KeyLists == SeqsUpTo({"key1", "key2"}, MaxKeys)

\* one-day events of either score
ItineraryRows ==
    {r \in PlanRows : /\ r["start_date"] = r["end_date"]
                      /\ r["relevance_score"] \in {0, SCALE}}

InitItinerary ==
    /\ pc = "scored"
    /\ start_arg = strftime(31)
    /\ end_arg = strftime(30 + NumDays)
    /\ \E rows \in SeqsUpTo(ItineraryRows, MaxRows) :
          /\ NoDuplicates(rows)
          /\ IsNonIncreasing(rows, "relevance_score")
          /\ final_csv = [columns |-> FINAL_COLS, rows |-> rows]
    /\ catalog_csv = None
    /\ cities_arg = None
    /\ input_json = None
    /\ filtered_csv = None
    /\ plan_json = None
    /\ API_KEYS \in KeyLists
    /\ key_index = 0
    /\ last_error = None
    /\ tried = <<>>
    /\ itinerary = None
    /\ AppIdle

NextItinerary == RunPlanner \/ StartItinerary \/ TryKey \/ ReturnFallback

SpecItinerary == InitItinerary /\ [][NextItinerary]_vars

\* ------------------------------------------------------------------------
\* The front end on its own: every input of the bounds, every exit code
\* ------------------------------------------------------------------------

\* "", " ", "art"
InterestTexts == {<<>>, <<" ">>, <<"a", "r", "t">>}

\* REAL_CITIES of the model's catalog
REAL_CITIES == <<<<"G", "o", "a">>, <<"P", "u", "n", "e">>>>

\* st.multiselect: any of the cities, each once, in the order chosen
Selections ==
    {sel \in SeqsUpTo(Range(REAL_CITIES), Len(REAL_CITIES)) :
        \A i, j \in 1..Len(sel) : i # j => sel[i] # sel[j]}

InitApp ==
    /\ \E text \in InterestTexts, sel \in Selections, w \in TripWindows :
          widgets = [interest_text |-> text, selected_cities |-> sel,
                     trip_start |-> w[1], trip_end |-> w[2]]
    /\ app_pc = "idle"
    /\ stage = 0
    /\ started = <<>>
    /\ exited = <<>>
    /\ displayed = FALSE
    /\ pc = "start"
    /\ catalog_csv = None
    /\ cities_arg = None
    /\ start_arg = None
    /\ end_arg = None
    /\ input_json = None
    /\ filtered_csv = None
    /\ final_csv = None
    /\ plan_json = None
    /\ ItineraryIdle

NextApp == ClickGenerate \/ StartStage \/ ExitStage \/ DisplayResult

SpecApp == InitApp /\ [][NextApp]_vars

\* ------------------------------------------------------------------------
\* Properties of the filter
\* ------------------------------------------------------------------------

FilteredRows == IF pc = "filtered" THEN filtered_csv.rows ELSE <<>>

\* both dates of the catalog event parse and its interval overlaps the trip
ParsesAndOverlaps(e) ==
    /\ IsIsoDate(e["start_date"]) /\ IsIsoDate(e["end_date"])
    /\ IsoLeq(e["start_date"], end_arg)
    /\ IsoLeq(start_arg, e["end_date"])

SameCity(a, b) == lower(strip(a)) = lower(strip(b))

\* two request lists that differ only in case or surrounding whitespace
SameRequest(a, b) ==
    Len(a) = Len(b) /\ \A i \in 1..Len(a) : SameCity(a[i], b[i])

CaseInsensitiveRequests ==
    pc = "filtered" =>
        \A other \in RequestLists \ {cities_arg} :
            SameRequest(other, cities_arg) =>
                to_csv(filter_events_by_city_and_date(other, start_arg, end_arg))
                    = filtered_csv

\* C1 as stated: the filter returns exactly the catalog events whose dates
\* parse, whose trimmed lower-cased city equals that of some requested city
\* and whose interval overlaps the trip; requests that differ only in case
\* or surrounding whitespace give identical results.
C1_FilterExact ==
    /\ pc = "filtered" =>
          /\ NoDuplicates(FilteredRows)
          /\ Names(FilteredRows) =
                {e["event_name"] : e \in
                    {e \in Range(catalog_csv.rows) :
                        /\ ParsesAndOverlaps(e)
                        /\ \E c \in Range(cities_arg) : SameCity(e["city"], c)}}
    /\ CaseInsensitiveRequests

\* C1, amended: the requested city that matches is one that is not blank.
C1_FilterExactNonBlank ==
    /\ pc = "filtered" =>
          /\ NoDuplicates(FilteredRows)
          /\ Names(FilteredRows) =
                {e["event_name"] : e \in
                    {e \in Range(catalog_csv.rows) :
                        /\ ParsesAndOverlaps(e)
                        /\ \E c \in Range(cities_arg) :
                              strip(c) # <<>> /\ SameCity(e["city"], c)}}
    /\ CaseInsensitiveRequests

\* one event admitted for a request typed in another case than the catalog's
\* city, another of the requested city dropped for lying outside the trip
C1_Witness ==
    /\ pc = "filtered"
    /\ \E e \in Range(catalog_csv.rows) :
          /\ e["event_name"] \in Names(FilteredRows)
          /\ e["city"] \notin Range(cities_arg)
    /\ \E e \in Range(catalog_csv.rows) :
          /\ e["event_name"] \notin Names(FilteredRows)
          /\ IsIsoDate(e["start_date"]) /\ IsIsoDate(e["end_date"])
          /\ \E c \in Range(cities_arg) : strip(c) # <<>> /\ SameCity(e["city"], c)

\* ------------------------------------------------------------------------
\* Properties of the plan builder
\* ------------------------------------------------------------------------

PlannedCities == IF pc = "planned" THEN plan_json.cities ELSE <<>>

\* the names of the model that hold both keywords
FlexibleNames == {EventNames[2], EventNames[4]}

ScoredRowsOf(city) == {r \in Range(final_csv.rows) : strip(r["city"]) = city}

FixedRowsOf(city) == {r \in ScoredRowsOf(city) : r["event_name"] \notin FlexibleNames}

FlexibleRowsOf(city) == {r \in ScoredRowsOf(city) : r["event_name"] \in FlexibleNames}

MinIso(dates) == CHOOSE d \in dates : \A e \in dates : IsoLeq(d, e)

MaxIso(dates) == CHOOSE d \in dates : \A e \in dates : IsoLeq(e, d)

\* C6: a city's window runs from the minimum start_date to the maximum
\* end_date of its fixed events, also when an earlier-starting event ends
\* after a later-starting one; without fixed events it is the trip's bounds.
C6_VisitWindow ==
    \A i \in 1..Len(PlannedCities) :
        LET c == PlannedCities[i]
            fixed == FixedRowsOf(c.city)
        IN  IF fixed # {}
            THEN /\ c.city_start_date = MinIso({r["start_date"] : r \in fixed})
                 /\ c.city_end_date = MaxIso({r["end_date"] : r \in fixed})
            ELSE /\ c.city_start_date = start_arg
                 /\ c.city_end_date = end_arg

\* C7: every city of the scored input appears exactly once in the plan; a
\* city whose events are all flexible activities appears with city_score
\* 0.0, the trip's bounds as its window and all its activities listed.
C7_CityCompleteness ==
    pc = "planned" =>
        LET cities == {strip(r["city"]) : r \in Range(final_csv.rows)}
        IN  /\ {PlannedCities[i].city : i \in 1..Len(PlannedCities)} = cities
            /\ Len(PlannedCities) = Cardinality(cities)
            /\ \A i \in 1..Len(PlannedCities) :
                  LET c == PlannedCities[i]
                  IN  FixedRowsOf(c.city) = {} =>
                        /\ c.city_score = 0
                        /\ c.city_start_date = start_arg
                        /\ c.city_end_date = end_arg
                        /\ Len(c.events) = Cardinality(FlexibleRowsOf(c.city))
                        /\ {c.events[k].name : k \in 1..Len(c.events)}
                              = {r["event_name"] : r \in FlexibleRowsOf(c.city)}
                        /\ \A k \in 1..Len(c.events) :
                              c.events[k].type = "flexible_activity"

\* a plan of two cities, one of them with flexible activities only
C7_Witness ==
    /\ Len(PlannedCities) = 2
    /\ \E i \in 1..Len(PlannedCities) :
          /\ FixedRowsOf(PlannedCities[i].city) = {}
          /\ Len(PlannedCities[i].events) >= 1

\* C8: the cities of the plan are non-decreasing by city_start_date and the
\* events of each city non-increasing by relevance.
C8_Ordering ==
    /\ \A i \in 1..(Len(PlannedCities) - 1) :
          IsoLeq(PlannedCities[i].city_start_date, PlannedCities[i + 1].city_start_date)
    /\ \A i \in 1..Len(PlannedCities) :
          IsNonIncreasing(PlannedCities[i].events, "relevance")

\* two cities planned in the opposite order of their first rows in final.csv
C8_Witness ==
    /\ Len(PlannedCities) = 2
    /\ PlannedCities[1].city # strip(final_csv.rows[1]["city"])
    /\ PlannedCities[1].city_start_date # PlannedCities[2].city_start_date

\* the rows of a set in some order of non-decreasing start_date
StartOrders(rows) ==
    {f \in [1..Cardinality(rows) -> rows] :
        /\ \A r \in rows : \E i \in 1..Cardinality(rows) : f[i] = r
        /\ \A i \in 1..(Cardinality(rows) - 1) :
              IsoLeq(f[i]["start_date"], f[i + 1]["start_date"])}

\* round(0.5 * mean(relevance) + 0.5 * 1 / (1 + average gap), 4) of the
\* fixed events in the order given
ExpectedCityScore(ordered) ==
    LET n == Len(ordered)
        sum_relevance == SumSeq(List([i \in 1..n |-> ordered[i]["relevance_score"]]))
        pairs == IF n <= 1 THEN 1 ELSE n - 1
        sum_gaps ==
            SumSeq(List([i \in 1..(n - 1) |->
                Max2(0, (DayOfYear(ordered[i + 1]["start_date"])
                            - DayOfYear(ordered[i]["end_date"])) - 1)]))
    IN  Round(sum_relevance * (pairs + sum_gaps) + SCALE * pairs * n,
              2 * n * (pairs + sum_gaps))

\* C9: the city_score of a city with fixed events is the rounded mean of
\* half the mean relevance of its fixed events and half of 1 / (1 + average
\* gap) over consecutive fixed events in start-date order; flexible events
\* do not enter it; it lies in [0, 1] and is 1.0 for one fixed event of
\* relevance 1.0.
C9_CityScore ==
    \A i \in 1..Len(PlannedCities) :
        LET c == PlannedCities[i]
            fixed == FixedRowsOf(c.city)
        IN  fixed # {} =>
              /\ \E ordered \in StartOrders(fixed) :
                    c.city_score = ExpectedCityScore(ordered)
              /\ 0 <= c.city_score /\ c.city_score <= SCALE
              /\ (Cardinality(fixed) = 1
                    /\ (\A r \in fixed : r["relevance_score"] = SCALE))
                    => c.city_score = SCALE

\* a city with two fixed events and idle days between them
C9_Witness ==
    \E i \in 1..Len(PlannedCities) :
        LET fixed == FixedRowsOf(PlannedCities[i].city)
        IN  /\ Cardinality(fixed) = 2
            /\ \E a, b \in fixed :
                  DayOfYear(b["start_date"]) - DayOfYear(a["end_date"]) > 1
            /\ PlannedCities[i].city_score < SCALE

\* ------------------------------------------------------------------------
\* Properties of the front end
\* ------------------------------------------------------------------------

FailedAt(i) == i <= Len(exited) /\ exited[i] # 0

\* C10: the stages start in the fixed order of the pipeline, each only after
\* the one before it has exited with success; once a stage has failed, no
\* later stage is started and the run never reads or shows the itinerary.
C10_SequentialStages ==
    /\ Len(started) <= Len(STAGES)
    /\ \A i \in 1..Len(started) : started[i] = STAGES[i]
    /\ \A i \in 2..Len(started) : i - 1 <= Len(exited) /\ exited[i - 1] = 0
    /\ \A i \in 1..Len(exited) :
          FailedAt(i) => (Len(started) = i /\ ~displayed /\ app_pc = "stopped")
    /\ displayed =>
          (Len(exited) = Len(STAGES) /\ \A i \in 1..Len(exited) : exited[i] = 0)

\* the third stage failed after two stages had succeeded
C10_Witness ==
    /\ Len(started) = 3
    /\ FailedAt(3)
    /\ app_pc = "stopped"

\* ------------------------------------------------------------------------
\* Properties of the scorer
\* ------------------------------------------------------------------------

AllCategories ==
    Range(CATEGORIES) \cup Range(GEMINI_CATEGORIES) \cup TOURISM_CATEGORIES

\* the row of filtered.csv a row of final.csv was scored from
SourceRow(r) ==
    CHOOSE f \in Range(filtered_csv.rows) : f["event_name"] = r["event_name"]

\* the categories active in the event and positively weighted by the user
SharedCategories(event_row, vector) ==
    {cat \in AllCategories :
        Get(event_row, cat, 0) = 1 /\ Get(vector, cat, 0) > 0}

ActiveTourism(event_row) ==
    {cat \in TOURISM_CATEGORIES : Get(event_row, cat, 0) = 1}

ScoredRows == IF pc = "scored" THEN Range(final_csv.rows) ELSE {}

\* C2: every relevance_score written by the scorer lies in [0.0, 1.0], for
\* interest weights in [0, 1].
C2_ScoreBounds ==
    \A r \in ScoredRows : 0 <= r["relevance_score"] /\ r["relevance_score"] <= SCALE

\* an event whose interest match plus tourism bias exceeds 1.0 was scored
C2_Witness ==
    \E r \in ScoredRows :
        /\ BiasedScore(SourceRow(r), input_json) > SCALE
        /\ r["relevance_score"] = SCALE

\* C3: an event with at least one category that is active in it and that
\* the user weights positively has relevance_score 1.0 (its pre-bias score
\* is 1.0, every such category being accumulated).
C3_SharedCategoryScoresOne ==
    \A r \in ScoredRows :
        SharedCategories(SourceRow(r), input_json) # {}
            => r["relevance_score"] = SCALE

\* C4: with no category both active in the event and positively weighted,
\* and no active tourism category, relevance_score is 0.0.
C4_ZeroOverlapScore ==
    \A r \in ScoredRows :
        (SharedCategories(SourceRow(r), input_json) = {}
            /\ ActiveTourism(SourceRow(r)) = {})
            => r["relevance_score"] = 0

\* an event with an active category the user does not weight, scored for a
\* user with some positive weight
C4_Witness ==
    \E r \in ScoredRows :
        /\ SharedCategories(SourceRow(r), input_json) = {}
        /\ ActiveTourism(SourceRow(r)) = {}
        /\ \E cat \in AllCategories : Get(SourceRow(r), cat, 0) = 1
        /\ \E cat \in AllCategories : Get(input_json, cat, 0) > 0
        /\ r["relevance_score"] = 0

\* C5 as stated: an event with an active tourism category can reach 1.0
\* purely from the bias, that is, some interest vector with zero overlap
\* with the event has it scored 1.0.
C5_ZeroOverlapReachesOne ==
    \A f \in Range(filtered_csv.rows) :
        ActiveTourism(f) # {} =>
            \E vector \in InterestVectors :
                /\ SharedCategories(f, vector) = {}
                /\ compute_relevance(WithCategoryColumns(f), vector) = SCALE

\* C5, amended: an event with zero interest overlap and an active tourism
\* category is scored exactly the tourism bias, 0.4, and so never 1.0.
C5_ZeroOverlapGetsBias ==
    \A r \in ScoredRows :
        (SharedCategories(SourceRow(r), input_json) = {}
            /\ ActiveTourism(SourceRow(r)) # {})
            => (r["relevance_score"] = TOURISM_BIAS /\ r["relevance_score"] < SCALE)

C5_Witness ==
    \E r \in ScoredRows :
        /\ SharedCategories(SourceRow(r), input_json) = {}
        /\ ActiveTourism(SourceRow(r)) # {}
        /\ r["relevance_score"] = TOURISM_BIAS


\* no row of the catalog has dates that parse and overlap the trip
NoOverlappingEvent ==
    \A i \in 1..Len(catalog_csv.rows) : ~ParsesAndOverlaps(catalog_csv.rows[i])

\* C12: when the normalized requested-city set is empty, or when no catalog
\* event overlaps the trip window, the filter returns without error an empty
\* record set with exactly the catalog's columns, no helper column added.
C12_EmptyResultColumns ==
    (pc = "filtered" /\ (cities_norm(cities_arg) = <<>> \/ NoOverlappingEvent)) =>
        /\ filtered_csv.rows = <<>>
        /\ filtered_csv.columns = catalog_csv.columns

\* the row of final.csv that holds the event of this name
RowOfEvent(name) ==
    CHOOSE k \in 1..Len(final_csv.rows) : final_csv.rows[k]["event_name"] = name

\* the first row of final.csv that holds this city
FirstRowOfCity(city) ==
    CHOOSE k \in 1..Len(final_csv.rows) :
        /\ strip(final_csv.rows[k]["city"]) = city
        /\ \A l \in 1..(k - 1) : strip(final_csv.rows[l]["city"]) # city

\* the order the plan gives two events of one city that have equal relevance
TieOrder(a, b) ==
    CASE a.type = "fixed_event" /\ b.type = "fixed_event" ->
             \/ ~IsoLeq(b.start_date, a.start_date)
             \/ a.start_date = b.start_date /\ RowOfEvent(a.name) < RowOfEvent(b.name)
      [] a.type = "fixed_event" /\ b.type = "flexible_activity" -> TRUE
      [] a.type = "flexible_activity" /\ b.type = "fixed_event" -> FALSE
      [] OTHER -> RowOfEvent(a.name) < RowOfEvent(b.name)

\* C16: tie-breaking in the plan is deterministic and stable: events of a
\* city with equal relevance appear with fixed events first (in ascending
\* start_date order) followed by flexible activities in input order, and
\* cities with equal city_start_date appear in the order of their first
\* occurrence in the scored input.
C16_StableTies ==
    /\ \A k \in 1..Len(PlannedCities) :
          LET events == PlannedCities[k].events
          IN  \A i, j \in 1..Len(events) :
                  (i < j /\ events[i].relevance = events[j].relevance) =>
                      TieOrder(events[i], events[j])
    /\ \A i, j \in 1..Len(PlannedCities) :
          (i < j /\ PlannedCities[i].city_start_date = PlannedCities[j].city_start_date)
              => FirstRowOfCity(PlannedCities[i].city) < FirstRowOfCity(PlannedCities[j].city)

\* a city whose flexible activity precedes, in final.csv, a fixed event of
\* equal relevance
C16_Witness ==
    /\ pc = "planned"
    /\ \E k \in 1..Len(plan_json.cities) :
          LET events == plan_json.cities[k].events
          IN  /\ Len(events) = 2
              /\ events[1].relevance = events[2].relevance
              /\ events[1].type = "fixed_event"
              /\ events[2].type = "flexible_activity"
              /\ RowOfEvent(events[2].name) < RowOfEvent(events[1].name)

\* ------------------------------------------------------------------------
\* Properties of the scripts in a row
\* ------------------------------------------------------------------------

\* the files on disk
Artifacts == <<filtered_csv, final_csv, plan_json>>

\* a step in which a script fails leaves every file as it was
FailedStepWritesNothing ==
    pc' \in {"filter_failed", "relevance_failed", "planner_failed"} =>
        Artifacts' = Artifacts

\* a step in which a script completes writes the whole of its own file, and
\* leaves the other files as they were
CompletedStepWritesAll ==
    /\ pc' = "filtered" =>
          /\ filtered_csv' = to_csv(
                 filter_events_by_city_and_date(cities_arg, start_arg, end_arg))
          /\ UNCHANGED <<final_csv, plan_json>>
    /\ pc' = "scored" =>
          /\ final_csv'.columns = FINAL_COLS
          /\ Len(final_csv'.rows) = Len(filtered_csv.rows)
          /\ Names(final_csv'.rows) = Names(filtered_csv.rows)
          /\ UNCHANGED <<filtered_csv, plan_json>>
    /\ pc' = "planned" =>
          /\ DOMAIN plan_json' = {"trip_start", "trip_end", "cities"}
          /\ {c["city"] : c \in Range(plan_json'.cities)}
                = {strip(r["city"]) : r \in Range(final_csv.rows)}
          /\ UNCHANGED <<filtered_csv, final_csv>>

\* the scorer and the plan builder fail exactly when a required column is
\* missing (or, for the plan builder, a trip date is no date)
FailsOnMissingColumns ==
    /\ (pc = "filtered" /\ ~(REQUIRED_SCORER_COLS \subseteq filtered_csv.columns))
          => pc' = "relevance_failed"
    /\ (pc = "scored" /\ ~(REQUIRED_PLANNER_COLS \subseteq final_csv.columns))
          => pc' = "planner_failed"

\* C11: every stage (filter, scorer, plan builder) either completes and
\* writes its full output file, or fails and writes nothing: a scorer or plan
\* builder that finds required columns missing raises before its output file
\* is opened, so its own file and all earlier files on disk stay unchanged.
C11_AtomicStages ==
    [][FailedStepWritesNothing /\ CompletedStepWritesAll /\ FailsOnMissingColumns]_vars

\* the scorer has failed on a missing column, with the files of an earlier
\* run on disk
C11_Witness ==
    /\ pc = "relevance_failed"
    /\ ~(REQUIRED_SCORER_COLS \subseteq filtered_csv.columns)
    /\ final_csv = OldFinal
    /\ plan_json = OldPlan


\* the fixed events of the emitted plan
PlannedFixedEvents ==
    UNION {{e \in Range(PlannedCities[i].events) : e.type = "fixed_event"} :
              i \in 1..Len(PlannedCities)}

\* C13: every event admitted by the catalog filter and carried into the plan
\* has start_date <= end_date, so every fixed event of the plan has
\* duration_days = (end - start).days + 1 >= 1.
C13_StartBeforeEnd ==
    pc = "planned" =>
        /\ \A r \in Range(filtered_csv.rows) : IsoLeq(r["start_date"], r["end_date"])
        /\ \A e \in PlannedFixedEvents :
              /\ e.duration_days = DayOfYear(e.end_date) - DayOfYear(e.start_date) + 1
              /\ e.duration_days >= 1

\* C14: for every city of the emitted plan the visit window lies within the
\* trip: trip_start <= city_start_date <= city_end_date <= trip_end.
C14_WindowWithinTrip ==
    \A i \in 1..Len(PlannedCities) :
        LET c == PlannedCities[i]
        IN  /\ IsoLeq(start_arg, c.city_start_date)
            /\ IsoLeq(c.city_start_date, c.city_end_date)
            /\ IsoLeq(c.city_end_date, end_arg)


\* ------------------------------------------------------------------------
\* Properties of the itinerary script
\* ------------------------------------------------------------------------

\* every attempt made so far failed with an exception the loop catches
AllCaught == \A i \in 1..Len(tried) : tried[i][2] \in CAUGHT

\* the itinerary has the plan's cities in the plan's order, each with its
\* window and its events in the plan's order, and the trip's dates
MirrorsPlan(it, plan) ==
    /\ it.trip_summary.start_date = plan.trip_start
    /\ it.trip_summary.end_date = plan.trip_end
    /\ Len(it.itinerary) = Len(plan.cities)
    /\ \A i \in 1..Len(plan.cities) :
          LET c == plan.cities[i]
              d == it.itinerary[i]
          IN  /\ d.city = c.city
              /\ d.visit_window.start_date = c.city_start_date
              /\ d.visit_window.end_date = c.city_end_date
              /\ Len(d.activities) = Len(c.events)
              /\ \A j \in 1..Len(c.events) :
                    /\ d.activities[j].title = c.events[j].name
                    /\ d.activities[j].type = c.events[j].type

\* C15: generate_itinerary tries the configured keys one at a time in
\* order, each at most once, returns the first response that parses, and
\* returns the fallback only after every key has failed with a client or
\* JSON-decode error; the fallback has exactly the plan's cities in the
\* plan's order, each with its city_start_date/city_end_date as visit
\* window and its events in order with unchanged name and type, and the
\* trip's dates in trip_summary.
C15_KeysInOrderThenFallback ==
    /\ Len(tried) <= Len(API_KEYS)
    /\ \A i \in 1..Len(tried) : tried[i][1] = i
    /\ \A i \in 1..(Len(tried) - 1) : tried[i][2] \in CAUGHT
    /\ pc = "itinerary_written" =>
          IF AllCaught
          THEN /\ Len(tried) = Len(API_KEYS)
               /\ "trip_summary" \in DOMAIN itinerary
               /\ MirrorsPlan(itinerary, plan_json)
          ELSE /\ tried[Len(tried)][2] = "parsed"
               /\ itinerary = Response(Len(tried))

\* both keys have failed with caught errors and the fallback of a plan
\* with two cities has been returned
C15_Witness ==
    /\ pc = "itinerary_written"
    /\ Len(API_KEYS) = 2
    /\ Len(tried) = 2
    /\ AllCaught
    /\ Len(plan_json.cities) = 2
    /\ "trip_summary" \in DOMAIN itinerary

=============================================================================
